---- MODULE Spec2Model ----
(***************************************************************************)
(* Model of the stravax client (package stravax): the paginated            *)
(* leaderboard retrieval of Client.getLeaderboard, the page fetcher        *)
(* Client.getLeaderboardPageForURL, the request gate Client.request and    *)
(* the field parsers they call.                                            *)
(*                                                                         *)
(* A text is a sequence of tokens (strings).  A digit, a sign, a blank,    *)
(* ":" and "/" are tokens of one character; a fixed piece of text that no  *)
(* parser looks into (a URL prefix, a name) is one token.                  *)
(***************************************************************************)
EXTENDS Integers, Sequences, FiniteSets, TLC

\* ------------------------------------------------------------- bounds
\* No Client issues more than MaxRequests requests in a checked behaviour.
MaxRequests == 3

\* The page arguments given to the single-page operations are 1..MaxPage.
MaxPage == 2

\* The ticker of a throttled Client fires at most MaxTicks times in a checked
\* behaviour.
MaxTicks == 4

\* The elapsed-time texts given to parseElapsedTime have 1..MaxComponents
\* components between their colons.
MaxComponents == 4

\* ---------------------------------------------------------- constants
MAX_PER_PAGE == 100

QPS_LIMIT == 10

\* time.Second in the unit of time.Duration, the nanosecond.
Second == 1000000000

\* The period of the ticker NewClient starts: time.Tick(QPS_LIMIT) takes its
\* argument as a time.Duration, a number of nanoseconds.
TickPeriod == QPS_LIMIT

\* The channel of time.Tick buffers one tick; a tick that finds it full is
\* dropped.
TickBuffer == 1

\* Client.throttle: nil in a Client of NewStubClient, the ticker's channel in
\* a Client of NewClient.
NoThrottle == "nil"

Ticker == "time.Tick"

Genders == [Unspecified |-> "", Male |-> "M", Female |-> "F"]

Filters == [Overall |-> "overall", CurrentYear |-> "current_year"]

\* ------------------------------------------------------- text helpers
Digits == <<"0", "1", "2", "3", "4", "5", "6", "7", "8", "9">>

IsDigit(c) == \E i \in 1..10 : Digits[i] = c

DigitVal(c) == (CHOOSE i \in 1..10 : Digits[i] = c) - 1

RECURSIVE DigitsValue(_)
\* The value of a non-empty sequence of digit tokens, base 10.
DigitsValue(s) ==
    IF Len(s) = 0 THEN 0
    ELSE DigitsValue(SubSeq(s, 1, Len(s) - 1)) * 10 + DigitVal(s[Len(s)])

RECURSIVE TrimLeft(_)
TrimLeft(s) ==
    IF Len(s) > 0 /\ s[1] = " " THEN TrimLeft(Tail(s)) ELSE s

RECURSIVE TrimRight(_)
TrimRight(s) ==
    IF Len(s) > 0 /\ s[Len(s)] = " " THEN TrimRight(SubSeq(s, 1, Len(s) - 1)) ELSE s

\* strings.TrimSpace
TrimSpace(s) == TrimRight(TrimLeft(s))

\* strings.TrimSuffix(s, suffix) for a suffix of one token
TrimSuffix(s, suffix) ==
    IF Len(s) > 0 /\ s[Len(s)] = suffix THEN SubSeq(s, 1, Len(s) - 1) ELSE s

\* strings.TrimPrefix(s, prefix) for a prefix of one token
TrimPrefix(s, prefix) ==
    IF Len(s) > 0 /\ s[1] = prefix THEN Tail(s) ELSE s

RECURSIVE Split(_, _)
\* strings.Split(s, sep) for a separator of one token: always at least one
\* piece, and one more piece than there are separators.
Split(s, sep) ==
    IF \A i \in 1..Len(s) : s[i] # sep THEN <<s>>
    ELSE LET i == CHOOSE k \in 1..Len(s) :
                      s[k] = sep /\ \A j \in 1..(k - 1) : s[j] # sep
         IN  <<SubSeq(s, 1, i - 1)>> \o Split(SubSeq(s, i + 1, Len(s)), sep)

\* parseInt: strconv.ParseInt(s, 10, 0).  An optional sign, then one or more
\* digits; anything else is a syntax error.  (The texts of the model are far
\* shorter than the 19 digits at which the range error starts.)
parseInt(s) ==
    LET body == IF Len(s) > 0 /\ s[1] \in {"+", "-"} THEN Tail(s) ELSE s
        sign == IF Len(s) > 0 /\ s[1] = "-" THEN 0 - 1 ELSE 1
    IN  IF Len(body) > 0 /\ \A i \in 1..Len(body) : IsDigit(body[i])
        THEN [err |-> "", val |-> sign * DigitsValue(body)]
        ELSE [err |-> "strconv.ParseInt", val |-> 0]

\* The float of a sign and the pieces around the decimal point, in hundredths.
FloatOf(sign, parts) ==
    LET int  == parts[1]
        frac == IF Len(parts) = 2 THEN parts[2] ELSE <<>>
        ok   == /\ Len(parts) <= 2
                /\ Len(int) + Len(frac) > 0
                /\ Len(frac) <= 2
                /\ \A i \in 1..Len(int) : IsDigit(int[i])
                /\ \A i \in 1..Len(frac) : IsDigit(frac[i])
        pad  == IF Len(frac) = 0 THEN <<"0", "0">>
                ELSE IF Len(frac) = 1 THEN frac \o <<"0">> ELSE frac
    IN  IF ok THEN [err |-> "", val |-> sign * DigitsValue(int \o pad)]
        ELSE [err |-> "strconv.ParseFloat", val |-> 0]

\* parseFloat: strconv.ParseFloat(s, 64), for the texts the stat cells hold:
\* an optional sign, digits, and at most one "." followed by at most two
\* digits.  The value is kept exactly, in hundredths.
parseFloat(s) ==
    FloatOf(IF Len(s) > 0 /\ s[1] = "-" THEN 0 - 1 ELSE 1,
            Split(IF Len(s) > 0 /\ s[1] \in {"+", "-"} THEN Tail(s) ELSE s, "."))

\* ------------------------------------------------------------ records
\* An attribute that is absent from the markup.
NoAttr == [ok |-> FALSE, val |-> <<>>]

Attr(v) == [ok |-> TRUE, val |-> v]

\* The nil *Leaderboard and the nil *Segment.
NilLeaderboard == [nil |-> TRUE, Entries |-> <<>>, EntriesCount |-> 0]

NilSegment ==
    [nil |-> TRUE, ID |-> 0, Name |-> <<>>, Location |-> <<>>, Distance |-> 0,
     AverageGrade |-> [num |-> 0, den |-> 0], ElevationLow |-> 0,
     ElevationHigh |-> 0, TotalElevationGain |-> 0]

\* ------------------------------------------------------ field parsers
NoValue == [err |-> "", val |-> 0]

\* Mutant: the hours are weighted like minutes.
ElapsedSum_HoursAsMinutes(hr, mr, sr) ==
    IF hr.err # "" THEN [err |-> hr.err, val |-> 0]
    ELSE IF mr.err # "" THEN [err |-> mr.err, val |-> 0]
    ELSE IF sr.err # "" THEN [err |-> sr.err, val |-> 0]
    ELSE [err |-> "", val |-> hr.val * 60 + mr.val * 60 + sr.val]

\* The end of parseElapsedTime: the first error in the order hours, minutes,
\* seconds, or h*3600 + m*60 + s.
ElapsedSum(hr, mr, sr) ==
    IF hr.err # "" THEN [err |-> hr.err, val |-> 0]
    ELSE IF mr.err # "" THEN [err |-> mr.err, val |-> 0]
    ELSE IF sr.err # "" THEN [err |-> sr.err, val |-> 0]
    ELSE [err |-> "", val |-> hr.val * 3600 + mr.val * 60 + sr.val]

\* parseElapsedTime from the split on: the components are peeled off from the
\* left, hours only when exactly three are left and minutes only when exactly
\* two are left; the seconds are read from the first component that remains.
ElapsedOf(a0) ==
    LET a1 == IF Len(a0) = 3 THEN Tail(a0) ELSE a0
        a2 == IF Len(a1) = 2 THEN Tail(a1) ELSE a1
    IN  ElapsedSum(IF Len(a0) = 3 THEN parseInt(a0[1]) ELSE NoValue,
                   IF Len(a1) = 2 THEN parseInt(a1[1]) ELSE NoValue,
                   parseInt(TrimSuffix(a2[1], "s")))

parseElapsedTime(str) == ElapsedOf(Split(str, ":"))

\* HasClass: c is one of the classes of an element.
HasClass(classes, c) == \E i \in 1..Len(classes) : classes[i] = c

\* Mutant: both signals of the pagination are required.
isFinalPage_BothSignals(doc) ==
    /\ Len(doc.pagination) >= 2
    /\ HasClass(doc.pagination[Len(doc.pagination) - 1], "active")
    /\ \E i \in 1..Len(doc.pagination) :
          HasClass(doc.pagination[i], "next_page") /\ HasClass(doc.pagination[i], "disabled")

\* isFinalPage: doc.pagination is the sequence of the class lists of the
\* <li> items of the pagination list.
isFinalPage(doc) ==
    LET li == doc.pagination
    IN  \/ Len(li) >= 2 /\ HasClass(li[Len(li) - 1], "active")
        \/ \E i \in 1..Len(li) :
              HasClass(li[i], "next_page") /\ HasClass(li[i], "disabled")

Months ==
    <<"Jan", "Feb", "Mar", "Apr", "May", "Jun",
      "Jul", "Aug", "Sep", "Oct", "Nov", "Dec">>

DaysIn(m, y) ==
    IF m = 2
    THEN IF (y % 4 = 0 /\ y % 100 # 0) \/ y % 400 = 0 THEN 29 ELSE 28
    ELSE IF m \in {4, 6, 9, 11} THEN 30 ELSE 31

\* A date of the layout "Jan 2, 2006" from its day, month and year numbers:
\* the day must exist in that month.
DateValue(d, m, y) ==
    IF d < 1 \/ d > DaysIn(m, y)
    THEN [err |-> "time.Parse", val |-> [year |-> 1, month |-> 1, day |-> 1]]
    ELSE [err |-> "", val |-> [year |-> y, month |-> m, day |-> d]]

\* The date of the pieces between the blanks: month name, day of one or two
\* digits with its comma, year of four digits.
DateOf(parts) ==
    LET mon   == parts[1]
        dayc  == parts[2]
        dayt  == SubSeq(dayc, 1, Len(dayc) - 1)
        yeart == parts[3]
        shape == /\ Len(parts) = 3
                 /\ Len(mon) = 1 /\ \E i \in 1..12 : Months[i] = mon[1]
                 /\ Len(dayc) \in {2, 3} /\ dayc[Len(dayc)] = ","
                 /\ \A i \in 1..Len(dayt) : IsDigit(dayt[i])
                 /\ Len(yeart) = 4 /\ \A i \in 1..4 : IsDigit(yeart[i])
    IN  IF ~shape
        THEN [err |-> "time.Parse", val |-> [year |-> 1, month |-> 1, day |-> 1]]
        ELSE DateValue(DigitsValue(dayt),
                       CHOOSE i \in 1..12 : Months[i] = mon[1],
                       DigitsValue(yeart))

\* time.Parse("Jan 2, 2006", s)
parseDate(s) == DateOf(Split(s, " "))

\* parseStat(stats, i): the text of the i-th stat cell (counted from 0), the
\* empty text when there is no such cell.
parseStat(stats, i) ==
    parseFloat(IF i + 1 <= Len(stats) THEN stats[i + 1] ELSE <<>>)

\* Mutant: the reported gain is kept as it is.
ElevationGain_Reported(reported, low, high) == reported

\* The gain kept for a segment: the larger of the reported gain and high - low.
ElevationGain(reported, low, high) ==
    IF reported > high - low THEN reported ELSE high - low

\* The Segment of a page from its parsed fields.  Floats are in hundredths.
PageSegment(id, name, location, dist, low, high, teg) ==
    [nil |-> FALSE, ID |-> id, Name |-> name, Location |-> location,
     Distance |-> dist * 1000,
     AverageGrade |-> [num |-> teg * 100, den |-> dist * 1000],
     ElevationLow |-> low, ElevationHigh |-> high, TotalElevationGain |-> teg]

\* parseSegment from its parsed fields on: the first failure in the order of
\* the code, or the segment.
SegmentResult(doc, id, dist, low, high, gain) ==
    IF ~doc.segIdAttr.ok THEN [err |-> "could not find segment ID", seg |-> NilSegment]
    ELSE IF id.err # "" THEN [err |-> id.err, seg |-> NilSegment]
    ELSE IF ~doc.segName.ok THEN [err |-> "could not find segment name", seg |-> NilSegment]
    ELSE IF dist.err # "" THEN [err |-> dist.err, seg |-> NilSegment]
    ELSE IF low.err # "" THEN [err |-> low.err, seg |-> NilSegment]
    ELSE IF high.err # "" THEN [err |-> high.err, seg |-> NilSegment]
    ELSE IF gain.err # "" THEN [err |-> gain.err, seg |-> NilSegment]
    ELSE [err |-> "",
          seg |-> PageSegment(id.val, doc.segName.val, TrimSpace(doc.location),
                              dist.val, low.val, high.val,
                              ElevationGain(gain.val, low.val, high.val))]

\* parseSegment(doc): [err, seg].
parseSegment(doc) ==
    SegmentResult(doc, parseInt(doc.segIdAttr.val), parseStat(doc.stats, 0),
                  parseStat(doc.stats, 2), parseStat(doc.stats, 3),
                  parseStat(doc.stats, 4))

\* Mutant: a blank rank cell is parsed like any other.
RankOf_NoDefault(r) == parseInt(r)

\* The rank of a row from its trimmed rank cell: 1 when the cell is blank.
RankOf(r) == IF r = <<>> THEN [err |-> "", val |-> 1] ELSE parseInt(r)

\* Mutant: a failure of the elapsed time fails the row like the others.
RowResult_ElapsedFails(tr, gender, rank, date, id, elapsed) ==
    [err   |-> IF rank.err # "" THEN rank.err
               ELSE IF ~tr.athleteHref.ok THEN "could not find athlete URL"
               ELSE IF date.err # "" THEN date.err
               ELSE IF ~tr.effortHref.ok THEN "could not find effort ID"
               ELSE IF id.err # "" THEN id.err
               ELSE elapsed.err,
     entry |-> [Rank |-> rank.val,
                Athlete |-> [URL |-> <<"https://www.strava.com">> \o tr.athleteHref.val,
                             Name |-> TrimSpace(tr.athleteName),
                             Gender |-> gender],
                EffortID |-> id.val,
                StartDate |-> date.val,
                ElapsedTime |-> elapsed.val]]

\* The row callback of parseLeaderboard from its parsed fields on: the first
\* failure in the order rank, athlete link, start date, effort link, effort
\* id; a failure of the elapsed time is dropped.
RowResult(tr, gender, rank, date, id, elapsed) ==
    [err   |-> IF rank.err # "" THEN rank.err
               ELSE IF ~tr.athleteHref.ok THEN "could not find athlete URL"
               ELSE IF date.err # "" THEN date.err
               ELSE IF ~tr.effortHref.ok THEN "could not find effort ID"
               ELSE id.err,
     entry |-> [Rank |-> rank.val,
                Athlete |-> [URL |-> <<"https://www.strava.com">> \o tr.athleteHref.val,
                             Name |-> TrimSpace(tr.athleteName),
                             Gender |-> gender],
                EffortID |-> id.val,
                StartDate |-> date.val,
                ElapsedTime |-> elapsed.val]]

\* Mutant: the athlete's gender is left unspecified.
parseRow_GenderUnset(tr, gender) ==
    RowResult(tr, Genders.Unspecified, RankOf(TrimSpace(tr.rank)),
              parseDate(TrimSpace(tr.date)),
              parseInt(TrimPrefix(tr.effortHref.val, "/segment_efforts/")),
              parseElapsedTime(TrimSpace(tr.elapsed)))

\* The body of the row callback of parseLeaderboard: [err, entry].
parseRow(tr, gender) ==
    RowResult(tr, gender, RankOf(TrimSpace(tr.rank)), parseDate(TrimSpace(tr.date)),
              parseInt(TrimPrefix(tr.effortHref.val, "/segment_efforts/")),
              parseElapsedTime(TrimSpace(tr.elapsed)))

\* Mutant: a row that fails is left out and the iteration goes on.
ConsRow_SkipFailed(first, rest) ==
    IF first.err # "" THEN rest
    ELSE [err |-> rest.err, entries |-> <<first.entry>> \o rest.entries]

\* One step of EachWithBreak: a row whose callback returns false ends the
\* iteration with its error; otherwise the entry is appended.
ConsRow(first, rest) ==
    IF first.err # "" THEN [err |-> first.err, entries |-> <<>>]
    ELSE [err |-> rest.err, entries |-> <<first.entry>> \o rest.entries]

RECURSIVE parseRows(_, _)
\* EachWithBreak over the rows: [err, entries].
parseRows(rows, gender) ==
    IF Len(rows) = 0 THEN [err |-> "", entries |-> <<>>]
    ELSE ConsRow(parseRow(rows[1], gender), parseRows(Tail(rows), gender))

\* parseLeaderboard from the parsed count and rows on.
LeaderboardResult(val, rows) ==
    IF val.err # "" THEN [err |-> val.err, lb |-> NilLeaderboard]
    ELSE IF rows.err # "" THEN [err |-> rows.err, lb |-> NilLeaderboard]
    ELSE [err |-> "",
          lb |-> [nil |-> FALSE, Entries |-> rows.entries, EntriesCount |-> val.val]]

\* Mutant: the piece before the first "/" is read.
LastPiece_First(split) == split[1]

\* The last piece of the split of the standings banner on "/".
LastPiece(split) == split[Len(split)]

\* parseLeaderboard(doc, gender): [err, lb].
parseLeaderboard(doc, gender) ==
    LeaderboardResult(parseInt(TrimSpace(LastPiece(Split(doc.standing, "/")))),
                      parseRows(doc.rows, gender))

RECURSIVE FormatNat(_)
FormatNat(n) ==
    IF n < 10 THEN <<Digits[n + 1]>>
    ELSE FormatNat(n \div 10) \o <<Digits[(n % 10) + 1]>>

\* fmt.Sprintf("%d", n)
FormatInt(n) == IF n < 0 THEN <<"-">> \o FormatNat(0 - n) ELSE FormatNat(n)

\* Mutant: the date range is never put into the URL.
getLeaderboardURL_NoDateRange(segmentID, gender, filter) ==
    <<"https://www.strava.com/segments/">> \o FormatInt(segmentID)
        \o <<"?", "filter=", filter, "&gender=", gender, "&per_page=">>
        \o FormatInt(MAX_PER_PAGE)

\* getLeaderboardURL(segmentID, gender, filter), as a text.
getLeaderboardURL(segmentID, gender, filter) ==
    LET url   == <<"https://www.strava.com/segments/">> \o FormatInt(segmentID) \o <<"?">>
        dated == IF filter = Filters.CurrentYear
                 THEN url \o <<"date_range=this_year&">> ELSE url
    IN  dated \o <<"filter=", filter, "&gender=", gender, "&per_page=">>
              \o FormatInt(MAX_PER_PAGE)

\* The URL of one page request: fmt.Sprintf("%s&page=%d", url, page).
PageURL(url, page) == url \o <<"&page=">> \o FormatInt(page)

\* ------------------------------------------------- the server's pages
\* Raw rows of the leaderboard table (the cells parseLeaderboard reads).
Row(rank, athleteHref, athleteName, date, effortHref, elapsed) ==
    [rank |-> rank, athleteHref |-> athleteHref, athleteName |-> athleteName,
     date |-> date, effortHref |-> effortHref, elapsed |-> elapsed]

\* A well-formed row: rank 1, 5:30.
RowGood1 ==
    Row(<<" ", "1", " ">>, Attr(<<"/athletes/", "7">>), <<" ", "Ann", " ">>,
        <<"Mar", " ", "5", ",", " ", "2", "0", "1", "7">>,
        Attr(<<"/segment_efforts/", "1", "1">>), <<"5", ":", "3", "0">>)

\* A well-formed row: rank 2, 1:02:03.
RowGood2 ==
    Row(<<"2">>, Attr(<<"/athletes/", "8">>), <<"Bob">>,
        <<"Feb", " ", "2", "9", ",", " ", "2", "0", "1", "6">>,
        Attr(<<"/segment_efforts/", "1", "2">>),
        <<"1", ":", "0", "2", ":", "0", "3">>)

\* The viewer's own highlighted row: no printed rank; its time cell does not
\* parse.
RowOwn ==
    Row(<<" ">>, Attr(<<"/athletes/", "9">>), <<"Cy">>,
        <<"Jan", " ", "1", "0", ",", " ", "2", "0", "1", "8">>,
        Attr(<<"/segment_efforts/", "1", "3">>), <<"a", "b", "c">>)

\* A row without the athlete link.
RowNoAthlete ==
    Row(<<"4">>, NoAttr, <<"Dee">>,
        <<"Jan", " ", "1", "0", ",", " ", "2", "0", "1", "8">>,
        Attr(<<"/segment_efforts/", "1", "4">>), <<"4", "5", "s">>)

\* Rows that fail on the rank, the start date, the effort link and the
\* effort id.
RowBadRank ==
    Row(<<"x">>, Attr(<<"/athletes/", "5">>), <<"Eve">>,
        <<"Jan", " ", "1", "0", ",", " ", "2", "0", "1", "8">>,
        Attr(<<"/segment_efforts/", "1", "5">>), <<"4", "5", "s">>)

RowBadDate ==
    Row(<<"5">>, Attr(<<"/athletes/", "5">>), <<"Eve">>,
        <<"Feb", " ", "2", "9", ",", " ", "2", "0", "1", "7">>,
        Attr(<<"/segment_efforts/", "1", "5">>), <<"4", "5", "s">>)

RowNoEffort ==
    Row(<<"5">>, Attr(<<"/athletes/", "5">>), <<"Eve">>,
        <<"Jan", " ", "1", "0", ",", " ", "2", "0", "1", "8">>,
        NoAttr, <<"4", "5", "s">>)

RowBadEffortID ==
    Row(<<"5">>, Attr(<<"/athletes/", "5">>), <<"Eve">>,
        <<"Jan", " ", "1", "0", ",", " ", "2", "0", "1", "8">>,
        Attr(<<"/segment_efforts/", "x">>), <<"4", "5", "s">>)

\* Pages with a failing row before or after a good one.
BadRowSeqs ==
    {<<RowBadRank, RowGood1>>, <<RowGood1, RowBadDate>>, <<RowGood1, RowNoEffort>>,
     <<RowGood1, RowBadEffortID>>}

RowSeqs == {<<>>, <<RowGood1>>, <<RowGood2, RowOwn>>, <<RowGood1, RowNoAthlete>>}

\* The text of the standings banner: "1 / 2", "3 / 1" and a banner without a
\* number.
Standings ==
    {<<"1", " ", "/", " ", "2">>, <<"3", " ", "/", " ", "1">>, <<"-">>}

\* The segment heading of a page: id, name, location and the stat cells
\* (distance in km, grade, lowest and highest elevation, elevation gain).
SegMeta(idAttr, name, location, stats) ==
    [segIdAttr |-> idAttr, segName |-> name, location |-> location, stats |-> stats]

SegPCSD ==
    SegMeta(Attr(<<"2", "1", "9">>), Attr(<<"PCSD">>), <<" ", "Dixon, CA", " ">>,
            << <<"1", "6", ".", "1", "1">>, <<"0", ".", "1">>, <<"8", "3">>,
               <<"9", "6">>, <<"1", "3">> >>)

\* A heading whose reported gain is below high - low.
SegUnder ==
    SegMeta(Attr(<<"7">>), Attr(<<"Hill">>), <<"Davis, CA">>,
            << <<"2">>, <<"5">>, <<"1", "0">>, <<"9", "0">>, <<"6", "0">> >>)

SegNoID ==
    SegMeta(NoAttr, Attr(<<"PCSD">>), <<"Dixon, CA">>,
            << <<"2">>, <<"5">>, <<"1", "0">>, <<"9", "0">>, <<"6", "0">> >>)

SegNoName ==
    SegMeta(Attr(<<"7">>), NoAttr, <<"Dixon, CA">>,
            << <<"2">>, <<"5">>, <<"1", "0">>, <<"9", "0">>, <<"6", "0">> >>)

SegNoStats == SegMeta(Attr(<<"7">>), Attr(<<"Hill">>), <<"Davis, CA">>, <<>>)

\* The pagination list of a page: a middle page, the last page marked by
\* the active item only, the last page marked by the disabled next item only.
PageMiddle == << <<"previous_page">>, <<"active">>, <<>>, <<"next_page">> >>

PageLastActive == << <<"previous_page">>, <<>>, <<"active">>, <<"next_page">> >>

PageLastDisabled == << <<"previous_page">>, <<"next_page", "disabled">> >>

\* What one GET can come back with: a transport error, a body that is no
\* document, or a document.
MkDoc(rows, standing, seg, pagination) ==
    [transportErr |-> FALSE, docErr |-> FALSE,
     segIdAttr |-> seg.segIdAttr, segName |-> seg.segName,
     location |-> seg.location, stats |-> seg.stats,
     standing |-> standing, rows |-> rows, pagination |-> pagination]

EmptyDoc == MkDoc(<<>>, <<>>, SegMeta(NoAttr, NoAttr, <<>>, <<>>), <<>>)

Docs ==
    {[EmptyDoc EXCEPT !.transportErr = TRUE], [EmptyDoc EXCEPT !.docErr = TRUE]}
    \cup {MkDoc(rows, st, SegPCSD, pg) :
            rows \in RowSeqs, st \in Standings, pg \in {PageMiddle, PageLastDisabled}}
    \cup {MkDoc(<<RowGood1>>, <<"1", " ", "/", " ", "2">>, SegPCSD, PageLastActive)}
    \cup {MkDoc(<<RowGood1>>, <<"1", " ", "/", " ", "2">>, sg, PageMiddle) :
            sg \in {SegNoID, SegUnder}}
    \cup {MkDoc(<<RowGood1>>, <<"1", " ", "/", " ", "2">>, sg, PageLastDisabled) :
            sg \in {SegNoID, SegUnder, SegNoName, SegNoStats}}
    \cup {MkDoc(<<>>, <<"0", " ", "/", " ", "9">>, SegPCSD, <<>>)}
    \cup {MkDoc(<<RowGood2, RowOwn, RowGood1>>, <<"1", " ", "/", " ", "2">>, SegPCSD,
                PageLastDisabled)}
    \cup {MkDoc(rows, <<"1", " ", "/", " ", "2">>, SegPCSD, PageMiddle) :
            rows \in BadRowSeqs}
    \cup {MkDoc(<<>>, <<>>, SegPCSD, <<>>)}
    \cup {MkDoc(<<RowGood1>>, <<"1", " ", "/", " ", "2", " ", "/", " ", "7">>, SegPCSD,
                PageLastDisabled)}

\* What the segments API can come back with.
ApiSegment(err, name, city, state, distance, low, high, gain) ==
    [err |-> err, Name |-> name, City |-> city, State |-> state,
     Distance |-> distance, ElevationLow |-> low, ElevationHigh |-> high,
     TotalElevationGain |-> gain]

ApiResponses ==
    {ApiSegment("api error", <<>>, "", "", 0, 0, 0, 0),
     ApiSegment("", <<"PCSD">>, "Dixon", "CA", 16110, 83, 96, 13),
     ApiSegment("", <<"Hill">>, "Davis", "CA", 2000, 10, 90, 60)}

SegmentIDs == {219}

\* The gender and filter arguments the callers pass.
CallArgs ==
    {[gender |-> Genders.Male, filter |-> Filters.Overall],
     [gender |-> Genders.Female, filter |-> Filters.CurrentYear]}

\* ---------------------------------------------------------- the client
VARIABLES
    RequestCount,   \* Client.RequestCount
    entryCount,     \* RequestCount as it was when the operation was entered
    sent,           \* the number of requests handed to the transport or the API
    pc,             \* where the caller is: "idle", "request", "send", "await", "done"
    op,             \* the public operation in progress
    args,           \* its arguments: segmentID, gender, filter
    includeSegment, \* the includeSegment argument of the operation
    page,           \* the local page of getLeaderboard, or the page argument
    inLoop,         \* getLeaderboard is past its first fetch, inside the for loop
    leaderboard,    \* the local leaderboard of getLeaderboard
    segment,        \* the local segment of getLeaderboard
    final,          \* the local final of getLeaderboard
    result,         \* what the operation returned: leaderboard, segment, error
    requests,       \* the requests of the operation in progress, in order
    resps,          \* the responses of the operation in progress, in order
    fetched,        \* what getLeaderboardPageForURL returned for each of them
    throttle,       \* Client.throttle: NoThrottle or Ticker
    buffered,       \* the ticks waiting in the throttle's channel
    delivered,      \* the ticks the ticker has put into the channel so far
    now,            \* the time since construction, in nanoseconds
    lastIssued,     \* the time the last request passed Client.request, or -1
    comps,          \* the components of the text given to parseElapsedTime
    parsed,         \* what parseElapsedTime returned for it
    bodiesOpen,     \* the response bodies obtained and not yet closed
    bodiesPeak,     \* the most bodies open at one time during the operation
    callerPc,       \* where each concurrent caller is inside a fetch
    loaded          \* the RequestCount each concurrent caller has read

\* The Client and its caller.
cvars ==
    <<RequestCount, entryCount, sent, pc, op, args, includeSegment, page, inLoop,
      leaderboard, segment, final, result, requests, resps, fetched>>

\* The throttle and the clock.
tvars == <<throttle, buffered, delivered, now, lastIssued>>

\* The caller of parseElapsedTime.
pvars == <<comps, parsed>>

\* The response bodies of the page fetches.
bvars == <<bodiesOpen, bodiesPeak>>

\* The callers that share one Client.
rvars == <<callerPc, loaded>>

vars == <<cvars, tvars, pvars, bvars, rvars>>

FullOps == {"GetLeaderboard", "GetLeaderboardAndSegment"}

PageOps == {"GetLeaderboardPage", "GetLeaderboardPageAndSegment"}

NoResult == [lb |-> NilLeaderboard, seg |-> NilSegment, err |-> ""]

NoArgs == [segmentID |-> 0, gender |-> "", filter |-> ""]

\* parseElapsedTime has not been called.
NotParsed == [done |-> FALSE, err |-> "", val |-> 0]

\* A Client as its constructor leaves it, with the throttle th, and its
\* caller before the first operation.
Constructed(th) ==
    /\ RequestCount = 0
    /\ entryCount = 0
    /\ sent = 0
    /\ pc = "idle"
    /\ op = ""
    /\ args = NoArgs
    /\ includeSegment = FALSE
    /\ page = 0
    /\ inLoop = FALSE
    /\ leaderboard = NilLeaderboard
    /\ segment = NilSegment
    /\ final = FALSE
    /\ result = NoResult
    /\ requests = <<>>
    /\ resps = <<>>
    /\ fetched = <<>>
    /\ throttle = th
    /\ buffered = 0
    /\ delivered = 0
    /\ now = 0
    /\ lastIssued = 0 - 1
    /\ bodiesOpen = 0
    /\ bodiesPeak = 0

\* The goroutines that may call into one Client at the same time.
Callers == {"A", "B"}

\* The Client has the one caller of pc and no others.
NoCallers ==
    /\ callerPc = [c \in Callers |-> "absent"]
    /\ loaded = [c \in Callers |-> 0]

\* The Client of NewStubClient: no throttle.
Init ==
    /\ Constructed(NoThrottle)
    /\ comps = <<>>
    /\ parsed = NotParsed
    /\ NoCallers

\* Mutant: every leaderboard operation asks for the segment.
IncludeSegmentArg_Always(o) == o # "GetSegment"

\* The includeSegment argument each public operation passes down.
IncludeSegmentArg(o) == o \in {"GetLeaderboardAndSegment", "GetLeaderboardPageAndSegment"}

\* A public operation is entered: its locals are fresh.
Enter(o, id, gender, filter, p) ==
    /\ pc \in {"idle", "done"}
    /\ RequestCount < MaxRequests
    /\ op' = o
    /\ args' = [segmentID |-> id, gender |-> gender, filter |-> filter]
    /\ includeSegment' = IncludeSegmentArg(o)
    /\ page' = p
    /\ inLoop' = FALSE
    /\ leaderboard' = NilLeaderboard
    /\ segment' = NilSegment
    /\ final' = FALSE
    /\ result' = NoResult
    /\ requests' = <<>>
    /\ resps' = <<>>
    /\ fetched' = <<>>
    /\ pc' = "request"
    /\ entryCount' = RequestCount
    /\ bodiesPeak' = bodiesOpen
    /\ UNCHANGED <<RequestCount, sent, bodiesOpen>>
    /\ UNCHANGED <<tvars, pvars, rvars>>

GetLeaderboardAndSegment ==
    \E id \in SegmentIDs, a \in CallArgs :
        Enter("GetLeaderboardAndSegment", id, a.gender, a.filter, 1)

GetLeaderboard ==
    \E id \in SegmentIDs, a \in CallArgs :
        Enter("GetLeaderboard", id, a.gender, a.filter, 1)

GetLeaderboardPageAndSegment ==
    \E id \in SegmentIDs, a \in CallArgs, p \in 1..MaxPage :
        Enter("GetLeaderboardPageAndSegment", id, a.gender, a.filter, p)

GetLeaderboardPage ==
    \E id \in SegmentIDs, a \in CallArgs, p \in 1..MaxPage :
        Enter("GetLeaderboardPage", id, a.gender, a.filter, p)

GetSegment ==
    \E id \in SegmentIDs : Enter("GetSegment", id, "", "", 0)

\* Mutant: the request is not counted.
CountRequest_Skip(n) == n

\* Mutant: the request is counted twice.
CountRequest_Twice(n) == n + 2

\* c.RequestCount++
CountRequest(n) == n + 1

\* Mutant: request() does not wait for the throttle.
Blocked_Never(th, n) == FALSE

\* Client.request has to wait: there is a throttle and no tick is in its
\* channel.
Blocked(th, n) == th # NoThrottle /\ n = 0

\* Client.request: with a throttle, take one tick from its channel as soon
\* as there is one; then count the request.
Request ==
    /\ pc = "request"
    /\ RequestCount < MaxRequests
    /\ ~Blocked(throttle, buffered)
    /\ buffered' = IF throttle # NoThrottle THEN buffered - 1 ELSE buffered
    /\ lastIssued' = now
    /\ RequestCount' = CountRequest(RequestCount)
    /\ pc' = "send"
    /\ UNCHANGED <<entryCount, sent, op, args, includeSegment, page, inLoop, leaderboard,
                   segment, final, result, requests, resps, fetched>>
    /\ UNCHANGED <<throttle, delivered, now, pvars, bvars, rvars>>

\* Mutant: the loop passes the operation's includeSegment down.
LoopIncludeSegment_Inherit == includeSegment

\* The includeSegment argument of the fetch inside the for loop.
LoopIncludeSegment == FALSE

\* The includeSegment argument of the fetch about to be made.
FetchIncludeSegment == IF inLoop THEN LoopIncludeSegment ELSE includeSegment

\* Mutant: the caller goes on to its next request without the response.
AwaitResponse_FireAndForget == "request"

\* Where the caller is once its request has left: inside the blocking Get
\* (or the blocking Do of the API call) until the response is there.
AwaitResponse == "await"

\* The request leaves: httpClient.Get of the page URL, or the API call of
\* GetSegment.
Send ==
    /\ pc = "send"
    /\ requests' =
          Append(requests,
                 IF op = "GetSegment"
                 THEN [kind |-> "api", url |-> FormatInt(args.segmentID), page |-> 0,
                       includeSegment |-> FALSE]
                 ELSE [kind |-> "page",
                       url |-> PageURL(getLeaderboardURL(args.segmentID, args.gender,
                                                         args.filter), page),
                       page |-> page, includeSegment |-> FetchIncludeSegment])
    /\ sent' = sent + 1
    /\ pc' = AwaitResponse
    /\ UNCHANGED <<RequestCount, entryCount, op, args, includeSegment, page, inLoop,
                   leaderboard, segment, final, result, resps, fetched>>
    /\ UNCHANGED <<tvars, pvars, bvars, rvars>>

\* What getLeaderboardPageForURL returns on each of its error paths.
FetchFail(e) == [lb |-> NilLeaderboard, seg |-> NilSegment, final |-> FALSE, err |-> e]

\* Mutant: only the pagination decides, an empty page does not end the loop.
IsFinal_MarkupOnly(lb, doc) == isFinalPage(doc)

\* The finality of a fetched page: no entries, or the pagination says last.
IsFinal(lb, doc) == Len(lb.Entries) = 0 \/ isFinalPage(doc)

\* getLeaderboardPageForURL from the parsed document on: [lb, seg, final, err].
FetchResult(doc, sg, pl) ==
    IF doc.transportErr THEN FetchFail("transport error")
    ELSE IF doc.docErr THEN FetchFail("document error")
    ELSE IF sg.err # "" THEN FetchFail(sg.err)
    ELSE IF pl.err # "" THEN FetchFail(pl.err)
    ELSE [lb |-> pl.lb, seg |-> sg.seg, final |-> IsFinal(pl.lb, doc), err |-> ""]

\* Mutant: a page fetched with its segment is reported as the final one.
getLeaderboardPageForURL_SegmentEnds(doc, gender, inclSeg) ==
    LET r == FetchResult(doc,
                         IF inclSeg THEN parseSegment(doc)
                         ELSE [err |-> "", seg |-> NilSegment],
                         parseLeaderboard(doc, gender))
    IN  [r EXCEPT !.final = r.final \/ (inclSeg /\ r.err = "")]

\* getLeaderboardPageForURL from the response on.
getLeaderboardPageForURL(doc, gender, inclSeg) ==
    FetchResult(doc,
                IF inclSeg THEN parseSegment(doc) ELSE [err |-> "", seg |-> NilSegment],
                parseLeaderboard(doc, gender))

\* Mutant: the new page's entries are put in front.
Merge_Prepend(lb, next) ==
    [lb EXCEPT !.EntriesCount = next.EntriesCount,
               !.Entries = next.Entries \o lb.Entries]

\* Mutant: the larger count is kept instead of the latest.
Merge_MaxCount(lb, next) ==
    [lb EXCEPT !.EntriesCount = IF next.EntriesCount > lb.EntriesCount
                                THEN next.EntriesCount ELSE lb.EntriesCount,
               !.Entries = lb.Entries \o next.Entries]

\* Mutant: the page fetched in the loop takes the place of what was gathered.
Merge_Replace(lb, next) ==
    [lb EXCEPT !.EntriesCount = next.EntriesCount,
               !.Entries = next.Entries]

\* The merge of the page fetched in the loop into the accumulated leaderboard.
Merge(lb, next) ==
    [lb EXCEPT !.EntriesCount = next.EntriesCount,
               !.Entries = lb.Entries \o next.Entries]

\* Mutant: what was gathered so far is returned with the error.
ErrorReturn_Partial(lb, seg, e) == [lb |-> lb, seg |-> seg, err |-> e]

\* What getLeaderboard returns when a fetch has failed.
ErrorReturn(lb, seg, e) == [lb |-> NilLeaderboard, seg |-> NilSegment, err |-> e]

\* Mutant: a failed fetch is tried again.
AfterFetchError_Retry == "request"

\* Where the caller is after a failed fetch: the operation has returned.
AfterFetchError == "done"

\* Mutant: the single-page operations run the loop too.
Loops_Always(o) == TRUE

\* The operations that run the for loop of getLeaderboard.
Loops(o) == o \in FullOps

\* Mutant: the loop goes on while fewer entries were gathered than the
\* count claims.
Continue_ByCount(fin, lb) == Len(lb.Entries) < lb.EntriesCount

\* Mutant: the loop has no condition at all.
Continue_Always(fin, lb) == TRUE

\* The condition of the for loop of getLeaderboard, on the final of the last
\* fetch and the leaderboard gathered so far: !final.
Continue(fin, lb) == ~fin

\* What the public operation hands to its caller on success: the operations
\* without "AndSegment" drop the segment.
SuccessReturn(o, lb, seg) ==
    [lb |-> lb, seg |-> IF IncludeSegmentArg(o) THEN seg ELSE NilSegment, err |-> ""]

\* The caller's step on the result r of a page fetch: the single-page
\* operations return; getLeaderboard returns on an error, takes over the
\* first page, or merges a loop page and runs the loop's post statement, and
\* then returns or goes round the loop again.
AfterFetch(r) ==
    LET ok   == r.err = ""
        lb1  == IF ~ok THEN leaderboard
                ELSE IF inLoop THEN Merge(leaderboard, r.lb) ELSE r.lb
        seg1 == IF ok /\ ~inLoop THEN r.seg ELSE segment
        more == ok /\ Loops(op) /\ Continue(r.final, lb1)
    IN  /\ fetched' = Append(fetched, r)
        /\ leaderboard' = lb1
        /\ segment' = seg1
        /\ final' = r.final
        /\ page' = IF ok /\ inLoop THEN page + 1 ELSE page
        /\ inLoop' = IF more THEN TRUE ELSE inLoop
        /\ pc' = IF more THEN "request" ELSE IF ok THEN "done" ELSE AfterFetchError
        /\ result' = IF more THEN NoResult
                     ELSE IF ok THEN SuccessReturn(op, lb1, seg1)
                     ELSE ErrorReturn(leaderboard, segment, r.err)

\* The response bodies httpClient.Get hands over with the response doc: none
\* with a transport error.
BodyObtained(doc) == IF doc.transportErr THEN 0 ELSE 1

\* Mutant: the body is closed after the document has been read from it, not
\* by a deferred call.
DeferredClose_AfterRead(doc) == IF doc.docErr THEN 0 ELSE BodyObtained(doc)

\* The bodies `defer resp.Body.Close()` closes when the fetch returns: the
\* one obtained, on every return after the transport error check.
DeferredClose(doc) == BodyObtained(doc)

\* The response of a page request arrives, one of the documents docs: the
\* rest of getLeaderboardPageForURL, then the caller's step.
PageResponseOf(docs) ==
    /\ pc = "await"
    /\ op # "GetSegment"
    /\ \E doc \in docs :
         /\ resps' = Append(resps, doc)
         /\ bodiesPeak' = IF bodiesOpen + BodyObtained(doc) > bodiesPeak
                          THEN bodiesOpen + BodyObtained(doc) ELSE bodiesPeak
         /\ bodiesOpen' = bodiesOpen + BodyObtained(doc) - DeferredClose(doc)
         /\ AfterFetch(getLeaderboardPageForURL(doc, args.gender, FetchIncludeSegment))
    /\ UNCHANGED <<RequestCount, entryCount, sent, op, args, includeSegment, requests>>
    /\ UNCHANGED <<tvars, pvars, rvars>>

PageResponse == PageResponseOf(Docs)

\* The Segment GetSegment builds from the API record.
ApiToSegment(id, a) ==
    LET teg == ElevationGain(a.TotalElevationGain, a.ElevationLow, a.ElevationHigh)
    IN  [nil |-> FALSE, ID |-> id, Name |-> a.Name,
         Location |-> <<a.City, ", ", a.State>>,
         Distance |-> a.Distance,
         AverageGrade |-> [num |-> teg * 100, den |-> a.Distance],
         ElevationLow |-> a.ElevationLow, ElevationHigh |-> a.ElevationHigh,
         TotalElevationGain |-> teg]

\* The answer of the segments API arrives and GetSegment returns.
SegmentResponse ==
    /\ pc = "await"
    /\ op = "GetSegment"
    /\ \E a \in ApiResponses :
         /\ resps' = Append(resps, a)
         /\ result' = IF a.err # ""
                      THEN [lb |-> NilLeaderboard, seg |-> NilSegment, err |-> a.err]
                      ELSE [lb |-> NilLeaderboard,
                            seg |-> ApiToSegment(args.segmentID, a), err |-> ""]
    /\ pc' = "done"
    /\ UNCHANGED <<RequestCount, entryCount, sent, op, args, includeSegment, page, inLoop,
                   leaderboard, segment, final, requests, fetched>>
    /\ UNCHANGED <<tvars, pvars, bvars, rvars>>

Next ==
    \/ GetLeaderboardAndSegment
    \/ GetLeaderboard
    \/ GetLeaderboardPageAndSegment
    \/ GetLeaderboardPage
    \/ GetSegment
    \/ Request
    \/ Send
    \/ PageResponse
    \/ SegmentResponse

Spec == Init /\ [][Next]_vars

\* ------------------------------------------------- the throttled client
\* The ticker of time.Tick fires: one period has passed; the tick goes into
\* the channel if there is room and is dropped otherwise.
Tick ==
    /\ throttle = Ticker
    /\ now < MaxTicks * TickPeriod
    /\ now' = now + TickPeriod
    /\ buffered' = IF buffered < TickBuffer THEN buffered + 1 ELSE buffered
    /\ delivered' = IF buffered < TickBuffer THEN delivered + 1 ELSE delivered
    /\ UNCHANGED <<throttle, lastIssued, cvars, pvars, bvars, rvars>>

\* The server of the throttled runs: a transport error, a middle page and a
\* last page.
ThrottleDocs ==
    {[EmptyDoc EXCEPT !.transportErr = TRUE],
     MkDoc(<<RowGood1>>, <<"1", " ", "/", " ", "2">>, SegPCSD, PageMiddle),
     MkDoc(<<RowGood1>>, <<"1", " ", "/", " ", "2">>, SegPCSD, PageLastDisabled)}

ThrottledPageResponse == PageResponseOf(ThrottleDocs)

\* A Client of NewStubClient or of NewClient.
ThrottleInit ==
    /\ \E th \in {NoThrottle, Ticker} : Constructed(th)
    /\ comps = <<>>
    /\ parsed = NotParsed
    /\ NoCallers

ThrottleNext ==
    \/ GetLeaderboard
    \/ GetLeaderboardPage
    \/ GetSegment
    \/ Request
    \/ Send
    \/ ThrottledPageResponse
    \/ SegmentResponse
    \/ Tick

ThrottleSpec == ThrottleInit /\ [][ThrottleNext]_vars

\* --------------------------------------- the caller of parseElapsedTime
\* The components a text is put together from: the text of the component,
\* the number it stands for, and whether it consists of digits only, of
\* digits and one trailing "s", or of something else.
Component(text, value, form) == [text |-> text, value |-> value, form |-> form]

Components ==
    {Component(<<"1">>, 1, "digits"),
     Component(<<"0", "2">>, 2, "digits"),
     Component(<<"0", "3">>, 3, "digits"),
     Component(<<"5">>, 5, "digits"),
     Component(<<"3", "0">>, 30, "digits"),
     Component(<<"4", "5", "s">>, 45, "digits+s"),
     Component(<<"a", "b", "c">>, 0, "other")}

RECURSIVE ElapsedText(_)
\* The text with the components cs between its colons.
ElapsedText(cs) ==
    IF Len(cs) = 1 THEN cs[1].text
    ELSE cs[1].text \o <<":">> \o ElapsedText(Tail(cs))

\* The caller holds a text of 1..MaxComponents components.
ParseInit ==
    /\ Constructed(NoThrottle)
    /\ comps \in UNION {[1..n -> Components] : n \in 1..MaxComponents}
    /\ parsed = NotParsed
    /\ NoCallers

\* The result of parseElapsedTime as the caller keeps it.
Parsed(r) == [done |-> TRUE, err |-> r.err, val |-> r.val]

\* The caller calls parseElapsedTime on its text.
ParseElapsedTime ==
    /\ ~parsed.done
    /\ parsed' = Parsed(parseElapsedTime(ElapsedText(comps)))
    /\ UNCHANGED <<comps, cvars, tvars, bvars, rvars>>

ParseNext == ParseElapsedTime

ParseSpec == ParseInit /\ [][ParseNext]_vars

\* ------------------------------------- a server that comes to an end
\* Responses after which a retrieval goes on: pages with rows and no mark of
\* being the last.
GoingOnDocs ==
    {MkDoc(<<RowGood1>>, <<"1", " ", "/", " ", "2">>, SegPCSD, PageMiddle),
     MkDoc(<<RowGood2, RowOwn>>, <<"3", " ", "/", " ", "1">>, SegNoID, PageMiddle)}

\* Responses that end a retrieval: errors, last pages and an empty page.
EndingDocs ==
    {[EmptyDoc EXCEPT !.transportErr = TRUE],
     MkDoc(<<RowBadRank, RowGood1>>, <<"1", " ", "/", " ", "2">>, SegPCSD, PageMiddle),
     MkDoc(<<RowGood1>>, <<"1", " ", "/", " ", "2">>, SegPCSD, PageLastDisabled),
     MkDoc(<<RowGood1>>, <<"1", " ", "/", " ", "2">>, SegPCSD, PageLastActive),
     MkDoc(<<>>, <<"0", " ", "/", " ", "9">>, SegPCSD, <<>>)}

\* The server of the runs that end: it answers with any response, and with an
\* error or a final page at the latest once it has been asked MaxRequests
\* times.
EndingPageResponse ==
    PageResponseOf(IF RequestCount >= MaxRequests THEN EndingDocs
                   ELSE GoingOnDocs \cup EndingDocs)

LiveNext ==
    \/ GetLeaderboardAndSegment
    \/ GetLeaderboard
    \/ Request
    \/ Send
    \/ EndingPageResponse

\* The caller runs on after each of its steps, and every request is answered:
\* by the server, or by the transport with an error.
LiveSpec ==
    /\ Init
    /\ [][LiveNext]_vars
    /\ WF_vars(Request)
    /\ WF_vars(Send)
    /\ WF_vars(EndingPageResponse)

\* ------------------------------------------ callers sharing a Client
\* The callers inside a fetch, between their read of RequestCount and the
\* return of their request.
InFetch == {c \in Callers : callerPc[c] \in {"loaded", "counted"}}

\* Some callers, one or more, are about to run retrievals on one Client of
\* NewStubClient.
RaceInit ==
    /\ Constructed(NoThrottle)
    /\ comps = <<>>
    /\ parsed = NotParsed
    /\ \E active \in (SUBSET Callers) \ {{}} :
          callerPc = [c \in Callers |-> IF c \in active THEN "idle" ELSE "absent"]
    /\ loaded = [c \in Callers |-> 0]

\* Caller c enters request() for its next fetch: with no throttle it reads
\* RequestCount, the first half of `c.RequestCount++`.
RequestLoad(c) ==
    /\ callerPc[c] = "idle"
    /\ sent + Cardinality(InFetch) < MaxRequests
    /\ loaded' = [loaded EXCEPT ![c] = RequestCount]
    /\ callerPc' = [callerPc EXCEPT ![c] = "loaded"]
    /\ UNCHANGED <<cvars, tvars, pvars, bvars>>

\* Caller c writes the incremented value back, the second half of
\* `c.RequestCount++`, and request() returns.
RequestStore(c) ==
    /\ callerPc[c] = "loaded"
    /\ RequestCount' = CountRequest(loaded[c])
    /\ callerPc' = [callerPc EXCEPT ![c] = "counted"]
    /\ UNCHANGED <<entryCount, sent, pc, op, args, includeSegment, page, inLoop,
                   leaderboard, segment, final, result, requests, resps, fetched>>
    /\ UNCHANGED <<loaded, tvars, pvars, bvars>>

\* Caller c issues its request with httpClient.Get and, the fetch done, is
\* ready for its next one.
RequestIssue(c) ==
    /\ callerPc[c] = "counted"
    /\ sent' = sent + 1
    /\ callerPc' = [callerPc EXCEPT ![c] = "idle"]
    /\ UNCHANGED <<RequestCount, entryCount, pc, op, args, includeSegment, page, inLoop,
                   leaderboard, segment, final, result, requests, resps, fetched>>
    /\ UNCHANGED <<loaded, tvars, pvars, bvars>>

RaceNext ==
    \E c \in Callers :
        \/ RequestLoad(c)
        \/ RequestStore(c)
        \/ RequestIssue(c)

RaceSpec == RaceInit /\ [][RaceNext]_vars

\* ============================================================== claims
\* What the claims read off a response, by its place in the operation.

\* The entries count of the banner of a document.
BannerCount(doc) == parseInt(TrimSpace(LastPiece(Split(doc.standing, "/")))).val

\* The outcome of the k-th fetch of the operation in progress.
Fetched(k) == fetched[k]

RECURSIVE ConcatEntries(_, _)
\* The entries of the rows of the responses ds, in order.
ConcatEntries(ds, gender) ==
    IF Len(ds) = 0 THEN <<>>
    ELSE parseRows(ds[1].rows, gender).entries \o ConcatEntries(Tail(ds), gender)

Returned == pc = "done"

Succeeded == pc = "done" /\ result.err = ""

Failed == pc = "done" /\ result.err # ""

SegmentErrors ==
    {"could not find segment ID", "could not find segment name", "strconv.ParseFloat"}

\* C1: in one full retrieval the k-th request asks for page k: page 1
\* first, then one higher each time, no page twice.
C1_PageNumbersAscend ==
    op \in FullOps => \A k \in 1..Len(requests) : requests[k].page = k

\* C2: a full retrieval that succeeds on n responses returns the rows of
\* responses 1..n concatenated in fetch order, the rows of the final one
\* included, and has raised RequestCount by exactly n.
C2_EntriesAreConcatenation ==
    (op \in FullOps /\ Succeeded) =>
        /\ result.lb.Entries = ConcatEntries(resps, args.gender)
        /\ RequestCount = entryCount + Len(resps)

C2_Witness ==
    /\ op \in FullOps /\ Succeeded
    /\ Len(resps) = 3
    /\ Len(resps[1].rows) = 1 /\ Len(resps[2].rows) = 2 /\ Len(resps[3].rows) = 1
    /\ Len(result.lb.Entries) = 4

\* C3: on success the EntriesCount of a full retrieval is the count of the
\* last page fetched, whatever the earlier pages claimed.
C3_LastCountWins ==
    (op \in FullOps /\ Succeeded) =>
        result.lb.EntriesCount = BannerCount(resps[Len(resps)])

\* Counts 2, then 1, then 2: down and up again.
C3_Witness ==
    /\ op \in FullOps /\ Succeeded
    /\ Len(resps) = 3
    /\ BannerCount(resps[1]) = 2 /\ BannerCount(resps[2]) = 1
    /\ BannerCount(resps[3]) = 2
    /\ result.lb.EntriesCount = 2

\* C4: a full retrieval stops at the first final page: a fetched page with
\* no rows or with the last-page markup is the last response, no request
\* follows it, and the call has returned success.
C4_StopsAtFirstFinal ==
    op \in FullOps =>
        \A k \in 1..Len(resps) :
            (Fetched(k).err = "" /\ (Len(resps[k].rows) = 0 \/ isFinalPage(resps[k])))
                => /\ k = Len(resps)
                   /\ Len(requests) = k
                   /\ RequestCount = entryCount + k
                   /\ Succeeded

\* The last page has no rows and no last-page markup, and the count claims
\* more entries than were gathered.
C4_Witness ==
    /\ op \in FullOps /\ Succeeded
    /\ Len(resps) = 2
    /\ Len(resps[2].rows) = 0 /\ ~isFinalPage(resps[2])
    /\ result.lb.EntriesCount > Len(result.lb.Entries)

\* C5: if a page fetch of a full retrieval fails, on page 1 or later, the
\* call returns that error with a nil leaderboard and a nil segment.
C5_NoPartialResult ==
    op \in FullOps =>
        \A k \in 1..Len(resps) :
            Fetched(k).err # ""
                => /\ Returned
                   /\ result.err = Fetched(k).err
                   /\ result.lb = NilLeaderboard
                   /\ result.seg = NilSegment

\* The third fetch fails after entries and a segment were gathered.
C5_Witness ==
    /\ op = "GetLeaderboardAndSegment" /\ Failed
    /\ Len(resps) = 3
    /\ Len(leaderboard.Entries) = 3
    /\ ~segment.nil
    /\ result.lb.nil /\ result.seg.nil

\* C6: no retry: an error is reported only by a retrieval that has
\* returned, whose failed request was its last one; RequestCount counts the
\* requests up to the failed one and no more.
C6_NoRetry ==
    (op \in FullOps /\ result.err # "") =>
        /\ Returned
        /\ Len(requests) = Len(resps)
        /\ Fetched(Len(resps)).err # ""
        /\ \A k \in 1..(Len(resps) - 1) : Fetched(k).err = ""
        /\ RequestCount = entryCount + Len(resps)

\* The second request fails on the transport.
C6_Witness ==
    /\ op \in FullOps /\ Failed
    /\ Len(requests) = 2
    /\ resps[2].transportErr

\* C7: RequestCount goes up by exactly 1 for every outbound request, page
\* GET or API call, before the request leaves; it never goes down and
\* nothing else changes it; whenever no request is about to leave it equals
\* the number of requests the Client attempted.
C7_RequestCountCountsRequests ==
    /\ [](pc # "send" => RequestCount = sent)
    /\ [][/\ RequestCount' \in {RequestCount, RequestCount + 1}
          /\ sent' \in {sent, sent + 1}
          /\ (RequestCount' = RequestCount + 1) <=> (pc = "request" /\ pc' = "send")
          /\ (sent' = sent + 1) => (pc = "send" /\ RequestCount = sent + 1)]_vars

\* A failed API call is counted, after two page requests.
C7_Witness ==
    /\ op = "GetSegment" /\ Failed
    /\ RequestCount = 3 /\ sent = 3

\* C8: the single-page operations issue exactly one request, for the page
\* the caller gave, whether or not that page is final, and return that
\* page's rows and count only.
C8_SinglePageOneRequest ==
    op \in PageOps =>
        /\ Len(requests) <= 1
        /\ \A k \in 1..Len(requests) : requests[k].page = page
        /\ pc \in {"await", "done"} => Len(requests) = 1
        /\ Returned => RequestCount = entryCount + 1 /\ Len(resps) = 1
        /\ Succeeded =>
              /\ result.lb.Entries = parseRows(resps[1].rows, args.gender).entries
              /\ result.lb.EntriesCount = BannerCount(resps[1])

\* Page 2 was asked for and was not final.
C8_Witness ==
    /\ op \in PageOps /\ Succeeded
    /\ page = 2
    /\ requests[1].page = 2
    /\ Len(resps[1].rows) = 2 /\ ~isFinalPage(resps[1])

\* C9: GetLeaderboard never parses segment metadata: no fetch of it asks
\* for the segment, it holds and returns no segment, and it fails only when
\* the transport, the document or the leaderboard of the last response
\* fails; GetLeaderboardAndSegment fails on a first page without segment id
\* or name.
C9_GetLeaderboardSkipsSegment ==
    /\ op = "GetLeaderboard" =>
          /\ \A k \in 1..Len(requests) : ~requests[k].includeSegment
          /\ segment = NilSegment /\ result.seg = NilSegment
          /\ Failed =>
                LET d == resps[Len(resps)]
                IN  d.transportErr \/ d.docErr \/ parseLeaderboard(d, args.gender).err # ""
    /\ (/\ op = "GetLeaderboardAndSegment" /\ Len(resps) >= 1
        /\ ~resps[1].transportErr /\ ~resps[1].docErr
        /\ (~resps[1].segIdAttr.ok \/ ~resps[1].segName.ok))
          => Failed /\ result.err \in SegmentErrors

\* GetLeaderboard succeeds on a first page without segment id and a second
\* page without segment name.
C9_Witness ==
    /\ op = "GetLeaderboard" /\ Succeeded
    /\ Len(resps) = 2
    /\ ~resps[1].segIdAttr.ok
    /\ ~resps[2].segName.ok

\* C10: in GetLeaderboardAndSegment only the first fetch asks for the
\* segment; the segment returned is the one of the first response, and a
\* segment error can only come from the first response.
C10_SegmentFromFirstPage ==
    op = "GetLeaderboardAndSegment" =>
        /\ \A k \in 1..Len(requests) : requests[k].includeSegment <=> (k = 1)
        /\ Succeeded =>
              /\ ~result.seg.nil
              /\ result.seg.ID = parseInt(resps[1].segIdAttr.val).val
              /\ result.seg.Name = resps[1].segName.val
              /\ result.seg = parseSegment(resps[1]).seg
        /\ (Failed /\ result.err \in SegmentErrors) => Len(resps) = 1

\* The second page has no segment id, the third another segment; the
\* segment returned is the first page's.
C10_Witness ==
    /\ op = "GetLeaderboardAndSegment" /\ Succeeded
    /\ Len(resps) = 3
    /\ ~resps[2].segIdAttr.ok
    /\ resps[3].segIdAttr.val = <<"7">>
    /\ result.seg.ID = 219

\* C11: with a throttle, every request that passes Client.request, page GET
\* or API call, first takes one tick out of the throttle's channel, so the
\* requests counted and the requests sent never outnumber the ticks
\* delivered; without a throttle Client.request never waits, touches no tick
\* and still counts the request.
C11_ThrottleGatesRequests ==
    /\ [](throttle # NoThrottle =>
             /\ buffered >= 0
             /\ sent <= RequestCount
             /\ RequestCount <= delivered)
    /\ []((throttle = NoThrottle /\ pc = "request" /\ RequestCount < MaxRequests)
             => ENABLED Request)
    /\ [][RequestCount' # RequestCount =>
             /\ RequestCount' = RequestCount + 1
             /\ throttle # NoThrottle =>
                   /\ buffered >= 1
                   /\ buffered' = buffered - 1
                   /\ delivered' = delivered
             /\ throttle = NoThrottle => buffered' = buffered]_vars

\* After a scraped page request, the API request of GetSegment waits for
\* the next tick: every tick delivered so far has been used.
C11_Witness ==
    /\ throttle = Ticker
    /\ op = "GetSegment" /\ pc = "request"
    /\ buffered = 0
    /\ RequestCount = 2 /\ delivered = 2

\* C12: two requests of a Client of NewClient never pass Client.request
\* closer together than 1/QPS_LIMIT second (so that no second sees more than
\* QPS_LIMIT requests).
C12_RequestsSpaced ==
    [][(throttle = Ticker /\ RequestCount' = RequestCount + 1 /\ lastIssued >= 0)
          => now - lastIssued >= Second \div QPS_LIMIT]_vars

\* C13: the requests of one call are strictly sequential: at most one is
\* without its response, and that only while the caller waits for it; when
\* a full retrieval is about to request a further page, every earlier
\* response has been parsed without error and merged into its leaderboard.
C13_RequestsSequential ==
    /\ Len(requests) - Len(resps) \in {0, 1}
    /\ (Len(requests) = Len(resps) + 1) <=> (pc = "await")
    /\ (op \in FullOps /\ pc \in {"request", "send"} /\ Len(resps) >= 1) =>
          /\ \A k \in 1..Len(resps) : Fetched(k).err = ""
          /\ leaderboard.Entries = ConcatEntries(resps, args.gender)
          /\ leaderboard.EntriesCount = BannerCount(resps[Len(resps)])

\* The third request is about to leave; the three rows of the first two
\* responses are in the leaderboard.
C13_Witness ==
    /\ op \in FullOps /\ pc = "send"
    /\ Len(requests) = 2 /\ Len(resps) = 2
    /\ Len(resps[1].rows) = 1 /\ Len(resps[2].rows) = 2
    /\ Len(leaderboard.Entries) = 3

\* Segment ids with their decimal text.
IdTexts ==
    {[id |-> 0, text |-> <<"0">>],
     [id |-> 7, text |-> <<"7">>],
     [id |-> 219, text |-> <<"2", "1", "9">>],
     [id |-> 1234, text |-> <<"1", "2", "3", "4">>],
     [id |-> 9012, text |-> <<"9", "0", "1", "2">>],
     [id |-> 0 - 5, text |-> <<"-", "5">>]}

\* The URL the claim describes, written out.
ExpectedURL(idText, gender, filter) ==
    <<"https://www.strava.com/segments/">> \o idText \o <<"?">>
        \o (IF filter = "current_year" THEN <<"date_range=this_year&">> ELSE <<>>)
        \o <<"filter=", filter, "&gender=", gender, "&per_page=", "1", "0", "0">>

AllNumeric(cs) ==
    /\ \A i \in 1..(Len(cs) - 1) : cs[i].form = "digits"
    /\ cs[Len(cs)].form \in {"digits", "digits+s"}

\* The value of the i-th component from the right, 0 when there is none.
FromRight(cs, i) == IF i <= Len(cs) THEN cs[Len(cs) + 1 - i].value ELSE 0

\* C15: for a text of one, two or three components parseElapsedTime gives
\* h*3600 + m*60 + s, m*60 + s or s, the last component possibly with one
\* trailing "s", and an error when a component is no number; "1:02:03" is
\* 3723, "5:30" is 330, "45s" is 45 and "abc" is an error.
C15_ElapsedTimeValue ==
    parsed.done =>
        /\ Len(comps) <= 3 =>
              IF AllNumeric(comps)
              THEN /\ parsed.err = ""
                   /\ parsed.val = FromRight(comps, 3) * 3600
                                     + FromRight(comps, 2) * 60 + FromRight(comps, 1)
              ELSE parsed.err # ""
        /\ ElapsedText(comps) = <<"1", ":", "0", "2", ":", "0", "3">>
              => parsed.err = "" /\ parsed.val = 3723
        /\ ElapsedText(comps) = <<"5", ":", "3", "0">>
              => parsed.err = "" /\ parsed.val = 330
        /\ ElapsedText(comps) = <<"4", "5", "s">>
              => parsed.err = "" /\ parsed.val = 45
        /\ ElapsedText(comps) = <<"a", "b", "c">> => parsed.err # ""

\* "1:02:03" was parsed.
C15_Witness ==
    /\ parsed.done
    /\ Len(comps) = 3
    /\ comps[1].text = <<"1">> /\ comps[2].text = <<"0", "2">>
    /\ comps[3].text = <<"0", "3">>
    /\ parsed.val = 3723

\* C16: whatever the number of components, parseElapsedTime fails when a
\* component is no number and otherwise takes the seconds from the
\* rightmost component; a text of four or more components never gives the
\* value of its first component.
C16_SecondsFromRightmost ==
    parsed.done =>
        /\ ~AllNumeric(comps) => parsed.err # ""
        /\ parsed.err = "" => (parsed.val - FromRight(comps, 1)) % 60 = 0
        /\ (Len(comps) >= 4 /\ parsed.err = "") => parsed.val # comps[1].value

\* The fields of a row other than its elapsed time can be read.
RowSound(tr) ==
    /\ RankOf(TrimSpace(tr.rank)).err = ""
    /\ tr.athleteHref.ok
    /\ parseDate(TrimSpace(tr.date)).err = ""
    /\ tr.effortHref.ok
    /\ parseInt(TrimPrefix(tr.effortHref.val, "/segment_efforts/")).err = ""

\* The k-th response is a document whose banner, and whose segment if it is
\* asked for, can be read.
PageReadable(k) ==
    /\ ~resps[k].transportErr /\ ~resps[k].docErr
    /\ requests[k].includeSegment => parseSegment(resps[k]).err = ""
    /\ parseInt(TrimSpace(LastPiece(Split(resps[k].standing, "/")))).err = ""

\* The entry e is the row tr, with ElapsedTime = 0 if the elapsed time of the
\* row cannot be parsed.
RowKept(tr, e) ==
    /\ e.EffortID = parseInt(TrimPrefix(tr.effortHref.val, "/segment_efforts/")).val
    /\ parseElapsedTime(TrimSpace(tr.elapsed)).err # "" => e.ElapsedTime = 0

\* The fetch result r has no error and one entry for each of the rows, in
\* their order.
RowsKept(rows, r) ==
    /\ r.err = ""
    /\ Len(r.lb.Entries) = Len(rows)
    /\ \A i \in 1..Len(rows) : RowKept(rows[i], r.lb.Entries[i])

\* C17: a row whose elapsed time cannot be parsed is still an entry of its
\* page, at its place, with ElapsedTime = 0; the page parse succeeds and the
\* rows after it are entries too.
C17_ElapsedErrorSwallowed ==
    op # "GetSegment" =>
        \A k \in 1..Len(resps) :
            (PageReadable(k) /\ \A i \in 1..Len(resps[k].rows) : RowSound(resps[k].rows[i]))
                => RowsKept(resps[k].rows, Fetched(k))

\* A retrieval returns the three rows of its page: 1:02:03, then the row
\* with the unparsable time, then 5:30.
C17_Witness ==
    /\ op \in FullOps /\ Succeeded
    /\ Len(resps) = 1 /\ Len(resps[1].rows) = 3
    /\ Len(result.lb.Entries) = 3
    /\ result.lb.Entries[1].ElapsedTime = 3723
    /\ result.lb.Entries[2].EffortID = 13 /\ result.lb.Entries[2].ElapsedTime = 0
    /\ result.lb.Entries[3].EffortID = 11 /\ result.lb.Entries[3].ElapsedTime = 330

\* The fetch result r is an error without a leaderboard, and the call has
\* returned that error.
FailedWith(r) ==
    /\ r.err # ""
    /\ r.lb = NilLeaderboard
    /\ Failed
    /\ result.err = r.err

\* C18: a page with a row that fails on the rank, the athlete link, the
\* start date, the effort link or the effort id gives an error and a nil
\* leaderboard, the rows before the failing one included, and the call that
\* fetched it fails as a whole.
C18_RowErrorFailsCall ==
    op # "GetSegment" =>
        \A k \in 1..Len(resps) :
            (PageReadable(k) /\ \E i \in 1..Len(resps[k].rows) : ~RowSound(resps[k].rows[i]))
                => /\ FailedWith(Fetched(k))
                   /\ k = Len(resps)
                   /\ result.lb = NilLeaderboard /\ result.seg = NilSegment

\* The second page of a retrieval has a good row and then a row whose date
\* does not exist; the row gathered from the first page is not returned.
C18_Witness ==
    /\ op \in FullOps /\ Failed
    /\ Len(resps) = 2
    /\ resps[2].rows = <<RowGood1, RowBadDate>>
    /\ result.err = "time.Parse"
    /\ Len(leaderboard.Entries) = 1
    /\ result.lb.nil

\* The gain sg keeps is the larger of the reported gain and high - low.
GainIsMax(sg, reported) ==
    /\ sg.TotalElevationGain >= sg.ElevationHigh - sg.ElevationLow
    /\ sg.TotalElevationGain >= reported
    /\ sg.TotalElevationGain \in {reported, sg.ElevationHigh - sg.ElevationLow}

\* The result r of parseSegment on doc, if it is no error, keeps the larger
\* gain; the stats of PCSD give 83, 96 and 13.
PageGainIsMax(doc, r) ==
    r.err = "" =>
        /\ GainIsMax(r.seg, parseStat(doc.stats, 4).val)
        /\ doc.stats = SegPCSD.stats =>
              /\ r.seg.ElevationLow = 8300
              /\ r.seg.ElevationHigh = 9600
              /\ r.seg.TotalElevationGain = 1300

RECURSIVE Gathered(_)
\* The entries gathered from the first k responses, each of them parsed
\* without error: one for every row.
Gathered(k) == IF k = 0 THEN 0 ELSE Gathered(k - 1) + Len(resps[k].rows)

\* The k-th response is a page the retrieval must stop at: no rows, or the
\* last-page markup.
FinalPage(k) == Len(resps[k].rows) = 0 \/ isFinalPage(resps[k])

\* The retrieval went on after its k-th response.
WentOn(k) == k < Len(requests) \/ pc \in {"request", "send"}

\* C20: whether a full retrieval stops after a page depends on that page
\* being final and never on len(Entries) against EntriesCount: after a
\* page that is not final it goes on, also when the entries gathered have
\* reached or passed the count, and after a final page it stops and returns
\* success, also when the entries gathered differ from the count.
C20_StopIgnoresCount ==
    op \in FullOps =>
        \A k \in 1..Len(resps) :
            Fetched(k).err = "" =>
                /\ WentOn(k) <=> ~FinalPage(k)
                /\ (~FinalPage(k) /\ Gathered(k) >= BannerCount(resps[k])) => WentOn(k)
                /\ (FinalPage(k) /\ Gathered(k) # BannerCount(resps[k]))
                      => k = Len(resps) /\ Succeeded

\* After the first page two entries were gathered against a count of 1 and
\* the retrieval went on; it stopped at the final second page with three
\* entries against a count of 2.
C20_Witness ==
    /\ op \in FullOps /\ Succeeded
    /\ Len(resps) = 2
    /\ ~FinalPage(1) /\ Gathered(1) = 2 /\ BannerCount(resps[1]) = 1
    /\ FinalPage(2) /\ Gathered(2) = 3 /\ BannerCount(resps[2]) = 2
    /\ Len(result.lb.Entries) = 3 /\ result.lb.EntriesCount = 2

\* The classes of the i-th pagination item of doc, as a set.
ItemClasses(doc, i) == {doc.pagination[i][j] : j \in 1..Len(doc.pagination[i])}

\* The second-to-last pagination item of doc is marked active.
SecondToLastActive(doc) ==
    /\ Len(doc.pagination) >= 2
    /\ "active" \in ItemClasses(doc, Len(doc.pagination) - 1)

\* The next-page item of doc is marked disabled.
NextDisabled(doc) ==
    \E i \in 1..Len(doc.pagination) : {"next_page", "disabled"} \subseteq ItemClasses(doc, i)

\* The fetch result r of doc is final exactly on one of the three signals.
FinalOnSignal(doc, r) ==
    r.err = "" =>
        /\ r.final <=> (Len(r.lb.Entries) = 0 \/ SecondToLastActive(doc) \/ NextDisabled(doc))
        /\ (Len(doc.rows) >= 1 /\ ~SecondToLastActive(doc) /\ ~NextDisabled(doc)) => ~r.final

\* C21: a fetched page is final exactly when it has no entries, or its
\* second-to-last pagination item is active, or its next-page item is
\* disabled, either signal alone being enough; a page with an entry and
\* neither signal is not final.
C21_FinalOnAnySignal ==
    op # "GetSegment" =>
        \A k \in 1..Len(resps) : FinalOnSignal(resps[k], Fetched(k))

\* The second page has a row and the active item only; the retrieval took
\* it as final.
C21_Witness ==
    /\ op \in FullOps /\ Succeeded
    /\ Len(resps) = 2
    /\ Len(resps[2].rows) = 1
    /\ SecondToLastActive(resps[2]) /\ ~NextDisabled(resps[2])
    /\ Fetched(2).final

\* The text of the banner t after its last "/", all of t if it has none.
AfterLastSlash(t) ==
    LET slashes == {i \in 1..Len(t) : t[i] = "/"}
        last    == IF slashes = {} THEN 0
                   ELSE CHOOSE i \in slashes : \A j \in slashes : j <= i
    IN  SubSeq(t, last + 1, Len(t))

\* The text t without its blanks.
NonBlank(t) == SelectSeq(t, LAMBDA c : c # " ")

\* The banner of doc ends in an unsigned integer.
BannerIsInteger(doc) ==
    LET n == NonBlank(AfterLastSlash(doc.standing))
    IN  n # <<>> /\ \A i \in 1..Len(n) : IsDigit(n[i])

BannerInteger(doc) == DigitsValue(NonBlank(AfterLastSlash(doc.standing)))

\* The k-th response is a document, and its segment can be read if it is
\* asked for: the fetch gets as far as the banner.
ReachesBanner(k) ==
    /\ ~resps[k].transportErr /\ ~resps[k].docErr
    /\ requests[k].includeSegment => parseSegment(resps[k]).err = ""

\* The fetch result r of doc took its count from the banner, or failed on it.
CountFromBanner(doc, r) ==
    IF BannerIsInteger(doc)
    THEN r.err = "" => r.lb.EntriesCount = BannerInteger(doc)
    ELSE r.err = "strconv.ParseInt" /\ ~r.final /\ FailedWith(r)

\* C22: the EntriesCount of a fetched page is the integer after the last "/"
\* of its banner; a page whose banner is absent or does not end in an integer
\* fails the fetch, and the operation, with the integer parse error whatever
\* its rows are, also when it has no rows at all.
C22_CountFromBanner ==
    op # "GetSegment" =>
        \A k \in 1..Len(resps) :
            ReachesBanner(k) => CountFromBanner(resps[k], Fetched(k))

\* The second page of a retrieval had no rows and no banner: the retrieval
\* failed instead of ending there.
C22_Witness ==
    /\ op \in FullOps /\ Failed /\ Len(resps) = 2
    /\ resps[2].standing = <<>> /\ resps[2].rows = <<>>
    /\ result.err = "strconv.ParseInt"

\* The text t is empty or blanks only.
Blank(t) == \A i \in 1..Len(t) : t[i] = " "

\* The text t is an unsigned integer between blanks.
IsUnsigned(t) ==
    /\ NonBlank(t) # <<>>
    /\ \A i \in 1..Len(NonBlank(t)) : IsDigit(NonBlank(t)[i])

\* The rank the row tr is to get.
ExpectedRank(tr) == IF Blank(tr.rank) THEN 1 ELSE DigitsValue(NonBlank(tr.rank))

\* The fields of the row tr after its rank can be read.
RestSound(tr) ==
    /\ tr.athleteHref.ok
    /\ parseDate(TrimSpace(tr.date)).err = ""
    /\ tr.effortHref.ok
    /\ parseInt(TrimPrefix(tr.effortHref.val, "/segment_efforts/")).err = ""

\* The fetch result r of doc gave every row its rank, or failed on a rank.
RanksRead(doc, r) ==
    /\ (\A i \in 1..Len(doc.rows) :
            (Blank(doc.rows[i].rank) \/ IsUnsigned(doc.rows[i].rank)) /\ RestSound(doc.rows[i]))
          => /\ r.err = ""
             /\ Len(r.lb.Entries) = Len(doc.rows)
             /\ \A i \in 1..Len(doc.rows) : r.lb.Entries[i].Rank = ExpectedRank(doc.rows[i])
    /\ (\E i \in 1..Len(doc.rows) :
            ~Blank(doc.rows[i].rank) /\ ~IsUnsigned(doc.rows[i].rank))
          => r.err # "" /\ FailedWith(r)

\* C23: a row whose rank cell is blank gets Rank 1 and is no error; a row
\* whose rank cell is not blank gets the integer in it; a rank cell that is
\* neither blank nor an integer fails the page.
C23_BlankRankIsOne ==
    op # "GetSegment" =>
        \A k \in 1..Len(resps) : PageReadable(k) => RanksRead(resps[k], Fetched(k))

\* A returned leaderboard holds the row without a printed rank as rank 1 next
\* to a row of printed rank 2.
C23_Witness ==
    /\ Succeeded /\ op # "GetSegment"
    /\ \E i, j \in 1..Len(result.lb.Entries) :
          /\ result.lb.Entries[i].EffortID = 13 /\ result.lb.Entries[i].Rank = 1
          /\ result.lb.Entries[j].EffortID = 12 /\ result.lb.Entries[j].Rank = 2
    /\ \E k \in 1..Len(resps) : \E i \in 1..Len(resps[k].rows) : resps[k].rows[i].rank = <<" ">>

\* Every entry of the leaderboard lb carries the gender g.
AllOfGender(lb, g) == \A i \in 1..Len(lb.Entries) : lb.Entries[i].Athlete.Gender = g

\* The URL url asks for the gender g.
AsksGender(url, g) ==
    \E i \in 1..(Len(url) - 1) : url[i] = "&gender=" /\ url[i + 1] = g

\* C24: every entry of every fetched page, of the leaderboard gathered so
\* far and of the returned leaderboard carries the gender argument of the
\* call as its athlete's gender, and every request of the call asks for that
\* gender in its URL.
C24_GenderIsArgument ==
    op \in FullOps \cup PageOps =>
        /\ \A k \in 1..Len(requests) : AsksGender(requests[k].url, args.gender)
        /\ \A k \in 1..Len(resps) : AllOfGender(Fetched(k).lb, args.gender)
        /\ AllOfGender(leaderboard, args.gender)
        /\ AllOfGender(result.lb, args.gender)

\* A retrieval for women returned entries of two pages.
C24_Witness ==
    /\ op \in FullOps /\ Succeeded
    /\ args.gender = "F"
    /\ Len(requests) = 3
    /\ Len(Fetched(2).lb.Entries) >= 1 /\ Len(Fetched(3).lb.Entries) >= 1
    /\ Len(result.lb.Entries) >= 3

\* The effort ids of the rows of the document doc.
EffortTexts(doc) == {doc.rows[i].effortHref.val : i \in 1..Len(doc.rows)}

\* The server answered by page number alone: the same page, the same response.
PageKeyed ==
    \A j, k \in 1..Len(resps) : requests[j].page = requests[k].page => resps[j] = resps[k]

\* No effort is on two pages, or twice on one.
DisjointPages ==
    /\ \A j, k \in 1..Len(resps) :
          requests[j].page # requests[k].page
              => EffortTexts(resps[j]) \cap EffortTexts(resps[k]) = {}
    /\ \A k \in 1..Len(resps) : Cardinality(EffortTexts(resps[k])) = Len(resps[k].rows)

\* The responses of the operation, one for each page number asked for.
PagesServed == {k \in 1..Len(resps) : \A j \in 1..(k - 1) : requests[j].page # requests[k].page}

RECURSIVE RowsOf(_)
\* The number of rows of the responses numbered in ks.
RowsOf(ks) ==
    IF ks = {} THEN 0
    ELSE LET k == CHOOSE x \in ks : TRUE
         IN  Len(resps[k].rows) + RowsOf(ks \ {k})

\* C25: against a server that answers by page number alone, with no effort on
\* two pages, a full retrieval over more than one page returns every row
\* once: no effort id twice, and as many entries as pages 1 to the final one
\* have rows.
C25_EachRowOnce ==
    (op \in FullOps /\ Succeeded /\ Len(resps) >= 2 /\ PageKeyed /\ DisjointPages)
        => /\ \A i, j \in 1..Len(result.lb.Entries) :
                 result.lb.Entries[i].EffortID = result.lb.Entries[j].EffortID => i = j
           /\ Len(result.lb.Entries) = RowsOf(PagesServed)

\* The sequence s is a prefix of the sequence t.
IsPrefix(s, t) == Len(s) <= Len(t) /\ SubSeq(t, 1, Len(s)) = s

\* One step of a full retrieval keeps what was gathered as a prefix of what
\* is gathered after it, and of what it returns.
GrowsByAppending ==
    (op \in FullOps /\ pc \in {"request", "send", "await"})
        => /\ IsPrefix(leaderboard.Entries, leaderboard'.Entries)
           /\ (pc' = "done" /\ result'.err = "")
                 => /\ IsPrefix(leaderboard.Entries, result'.lb.Entries)
                    /\ result'.lb.Entries = leaderboard'.Entries

\* C27: merging only appends: during a full retrieval the entries gathered
\* so far are a prefix of the entries gathered at every later step and of the
\* entries returned.
C27_AppendOnly == [][GrowsByAppending]_vars

\* A retrieval returned four entries gathered from three pages, each of
\* which added some.
C27_Witness ==
    /\ op \in FullOps /\ Succeeded
    /\ Len(resps) = 3
    /\ \A k \in 1..3 : Len(Fetched(k).lb.Entries) >= 1
    /\ Len(result.lb.Entries) = 4
    /\ IsPrefix(Fetched(1).lb.Entries \o Fetched(2).lb.Entries, result.lb.Entries)

\* The responses of the operation in progress that came with a body.
WithBody == {k \in 1..Len(resps) : ~resps[k].transportErr}

\* C28: every response body a page fetch obtains is closed when the fetch
\* returns, on success and on every error return: between fetches and after
\* the operation has returned no body is open, and no more than one was open
\* at any one time.
C28_BodiesClosed ==
    /\ bodiesOpen = 0
    /\ bodiesPeak <= 1
    /\ (op \in FullOps \cup PageOps /\ WithBody # {}) => bodiesPeak = 1

\* A retrieval failed on its third response, a body that is no document,
\* after two pages read from their bodies.
C28_Witness ==
    /\ op \in FullOps /\ Failed
    /\ Len(resps) = 3 /\ WithBody = {1, 2, 3}
    /\ resps[3].docErr
    /\ bodiesPeak = 1 /\ bodiesOpen = 0

\* What a retrieval without the segment has returned, or not yet returned,
\* after n requests: the leaderboard, the error, the requests issued.
Outcome(lb, err, n, done) == [lb |-> lb, err |-> err, requests |-> n, done |-> done]

RECURSIVE PlainLoop(_, _, _, _)
\* The loop of a retrieval without the segment over the responses ds, with
\* lb gathered from n requests so far.
PlainLoop(lb, ds, gender, n) ==
    IF Len(ds) = 0 THEN Outcome(lb, "", n, FALSE)
    ELSE LET r == getLeaderboardPageForURL(ds[1], gender, FALSE)
         IN  IF r.err # "" THEN Outcome(NilLeaderboard, r.err, n + 1, TRUE)
             ELSE IF r.final THEN Outcome(Merge(lb, r.lb), "", n + 1, TRUE)
             ELSE PlainLoop(Merge(lb, r.lb), Tail(ds), gender, n + 1)

\* GetLeaderboard over the responses ds.
PlainRetrieval(ds, gender) ==
    LET r == getLeaderboardPageForURL(ds[1], gender, FALSE)
    IN  IF r.err # "" THEN Outcome(NilLeaderboard, r.err, 1, TRUE)
        ELSE IF r.final THEN Outcome(r.lb, "", 1, TRUE)
        ELSE PlainLoop(r.lb, Tail(ds), gender, 1)

\* The operation in progress has returned what o says.
SameOutcome(o) ==
    /\ o.done
    /\ result.lb = o.lb
    /\ result.err = o.err
    /\ Len(requests) = o.requests
    /\ RequestCount - entryCount = o.requests

\* C30: over the same page responses, the first of which carries readable
\* segment metadata, GetLeaderboard and GetLeaderboardAndSegment return the
\* same entries and entries count (or the same error) and issue the same
\* number of requests: both return what a retrieval that never asks for the
\* segment returns over those responses.
C30_SameLeaderboardWithSegment ==
    (op \in FullOps /\ Returned /\ ~resps[1].transportErr /\ ~resps[1].docErr
                    /\ parseSegment(resps[1]).err = "")
        => SameOutcome(PlainRetrieval(resps, args.gender))

\* GetLeaderboardAndSegment returned a segment and the entries of three
\* pages, the second of which has no readable segment.
C30_Witness ==
    /\ op = "GetLeaderboardAndSegment" /\ Succeeded
    /\ ~result.seg.nil
    /\ Len(resps) = 3
    /\ parseSegment(resps[2]).err # ""
    /\ Len(result.lb.Entries) >= 3

\* A full retrieval is under way.
Retrieving == op \in FullOps /\ pc \in {"request", "send", "await"}

\* The last fetch of the operation failed or got a final page.
EndedByServer ==
    /\ Len(resps) >= 1
    /\ Fetched(Len(resps)).err # "" \/ Fetched(Len(resps)).final

\* Every fetch of the operation so far got a page with rows and no mark of
\* being the last.
AllGoingOn ==
    \A k \in 1..Len(resps) :
        /\ Fetched(k).err = ""
        /\ Len(resps[k].rows) >= 1
        /\ ~SecondToLastActive(resps[k]) /\ ~NextDisabled(resps[k])

\* C26: a full retrieval returns once the server has answered with an error
\* or a final page, and only then: as long as every page has rows and no
\* final mark it has not returned and its next request is not held back by
\* any bound on the page number.
C26_ReturnsWhenServerEnds ==
    /\ [](op \in FullOps /\ Returned => EndedByServer)
    /\ [](op \in FullOps /\ Len(resps) >= 1 /\ AllGoingOn
            => ~Returned /\ (pc = "request" => ENABLED Request))
    /\ (Retrieving ~> (op \in FullOps /\ Returned))

\* A retrieval returned on the final page it got as its third response,
\* after two pages that were not final.
C26_Witness ==
    /\ op \in FullOps /\ Succeeded
    /\ Len(resps) = 3
    /\ ~Fetched(1).final /\ ~Fetched(2).final /\ Fetched(3).final
    /\ requests[3].page = 2

\* The callers that use the Client.
Active == {c \in Callers : callerPc[c] # "absent"}

\* The requests counted by a caller that has not issued its request yet.
CountedNotIssued == Cardinality({c \in Callers : callerPc[c] = "counted"})

\* C29: RequestCount is read and written back in two steps with nothing to
\* keep another caller out: with one caller on the Client it equals the
\* number of requests issued whenever the caller is between fetches; with
\* several it never exceeds the number of requests that passed request(),
\* and may stay below it.
C29_CountExactForOneCaller ==
    /\ RequestCount <= sent + CountedNotIssued
    /\ Cardinality(Active) = 1 => RequestCount = sent + CountedNotIssued
    /\ (Cardinality(Active) = 1 /\ InFetch = {}) => RequestCount = sent

\* Two callers have issued three requests between them and are between
\* fetches; RequestCount is below three.
C29_Witness ==
    /\ Cardinality(Active) = 2
    /\ InFetch = {}
    /\ sent = 3
    /\ RequestCount < sent

====
